---- MODULE Spec2Model ----
(***************************************************************************)
(* Model of the Home Assistant diagnostic scripts (help_scripts/*.py) and  *)
(* of the build/flash wrappers.  Python strings are tuples of character    *)
(* codes, so that strip(), lower(), startswith() and "in" are computed.    *)
(***************************************************************************)
EXTENDS Integers, Sequences, FiniteSets, TLC

(* ------------------------------------------------------------------ *)
(* Python string operations                                            *)
(* ------------------------------------------------------------------ *)

\* str.lower(): only A..Z change
lower(s) == [i \in 1..Len(s) |-> IF s[i] \in 65..90 THEN s[i] + 32 ELSE s[i]]

\* whitespace removed by str.strip(): space, \t, \n, \v, \f, \r
IsSpace(c) == c \in {32, 9, 10, 11, 12, 13}

RECURSIVE lstrip(_)
lstrip(s) == IF s # <<>> /\ IsSpace(Head(s)) THEN lstrip(Tail(s)) ELSE s

RECURSIVE rstrip(_)
rstrip(s) ==
  IF s # <<>> /\ IsSpace(s[Len(s)]) THEN rstrip(SubSeq(s, 1, Len(s) - 1)) ELSE s

strip(s) == rstrip(lstrip(s))

\* str.rstrip('/')
RECURSIVE rstrip_slash(_)
rstrip_slash(s) ==
  IF s # <<>> /\ s[Len(s)] = 47 THEN rstrip_slash(SubSeq(s, 1, Len(s) - 1)) ELSE s

startswith(s, p) == Len(s) >= Len(p) /\ SubSeq(s, 1, Len(p)) = p

\* the Python test  k in s  on strings
contains(s, k) ==
  \E i \in 1..(Len(s) - Len(k) + 1) : SubSeq(s, i, i + Len(k) - 1) = k

\* s.find(k) + 1: the first position of k in s, 0 when k does not occur
find(s, k) ==
  IF contains(s, k)
  THEN CHOOSE i \in 1..(Len(s) - Len(k) + 1) :
         /\ SubSeq(s, i, i + Len(k) - 1) = k
         /\ \A j \in 1..(i - 1) : SubSeq(s, j, j + Len(k) - 1) # k
  ELSE 0

\* s[:n]
prefix(s, n) == IF Len(s) <= n THEN s ELSE SubSeq(s, 1, n)

\* str(n) for n >= 0
RECURSIVE str_int(_)
str_int(n) == IF n < 10 THEN <<48 + n>> ELSE str_int(n \div 10) \o <<48 + (n % 10)>>

(* string literals of the scripts *)
L_https    == <<104, 116, 116, 112, 115, 58, 47, 47>>                  \* 'https://'
L_sep      == <<58, 47, 47>>                                            \* '://'
L_wss      == <<119, 115, 115, 58, 47, 47>>                             \* 'wss://'
L_ws       == <<119, 115, 58, 47, 47>>                                  \* 'ws://'
L_api_ws   == <<47, 97, 112, 105, 47, 119, 101, 98, 115, 111, 99, 107, 101, 116>> \* '/api/websocket'
L_colon    == <<58>>                                                    \* ':'
L_True     == <<84, 114, 117, 101>>                                     \* 'True'
L_False    == <<70, 97, 108, 115, 101>>                                 \* 'False'

(* ------------------------------------------------------------------ *)
(* Python values: None, str, bool, int                                 *)
(* ------------------------------------------------------------------ *)
PyNone    == [t |-> "none", s |-> <<>>]
PyStr(s)  == [t |-> "str", s |-> s]
PyBool(b) == [t |-> "bool", s |-> IF b THEN L_True ELSE L_False]
PyInt(n)  == [t |-> "int", s |-> <<n>>]

\* bool(v)
truthy(v) ==
  CASE v.t = "none" -> FALSE
    [] v.t = "str"  -> v.s # <<>>
    [] v.t = "bool" -> v.s = L_True
    [] v.t = "int"  -> v.s[1] # 0

\* v or w
py_or(v, w) == IF truthy(v) THEN v ELSE w

\* str(v) for None, str and bool
py_str(v) == IF v.t = "none" THEN <<78, 111, 110, 101>> ELSE v.s

(* ------------------------------------------------------------------ *)
(* Credential resolution (test_websocket.py, test_ha_api_direct.py)    *)
(* ------------------------------------------------------------------ *)
W_1     == <<49>>
W_true  == <<116, 114, 117, 101>>
W_yes   == <<121, 101, 115>>
W_y     == <<121>>
W_on    == <<111, 110>>
W_0     == <<48>>
W_false == <<102, 97, 108, 115, 101>>
W_no    == <<110, 111>>
W_n     == <<110>>
W_off   == <<111, 102, 102>>

TruthyWords == {W_1, W_true, W_yes, W_y, W_on}
FalsyWords  == {W_0, W_false, W_no, W_n, W_off}

\* the coercion without .lower()
_to_bool_cased(v, default) ==
  IF v.t = "none" THEN default
  ELSE IF v.t = "bool" THEN v.s = L_True
  ELSE LET s == strip(py_str(v))
       IN  IF s \in TruthyWords THEN TRUE
           ELSE IF s \in FalsyWords THEN FALSE
           ELSE default

\* _to_bool(v, default): v is a Python value, default and the result are booleans
_to_bool(v, default) ==
  IF v.t = "none" THEN default
  ELSE IF v.t = "bool" THEN v.s = L_True
  ELSE LET s == lower(strip(py_str(v)))
       IN  IF s \in TruthyWords THEN TRUE
           ELSE IF s \in FalsyWords THEN FALSE
           ELSE default

\* os.environ.get(NAME): the variable's text, or None when it is not set
EnvNone == [base_url |-> PyNone, token |-> PyNone, verify_ssl |-> PyNone]

\* the mapping read from esphome/secrets.yaml; present = FALSE: no such file
\* (or no yaml module); a key the file does not hold reads as None with .get
SecretsAbsent ==
  [present |-> FALSE, base_url |-> PyNone, token |-> PyNone, verify_ssl |-> PyNone]

\* load_ha_secrets(); rest = TRUE is the variant of test_ha_api_direct.py, which
\* also strips trailing slashes from the base url
load_ha_secrets(e, sec, rest) ==
  LET base0   == strip(py_or(e.base_url, PyStr(<<>>)).s)
      token0  == strip(py_or(e.token, PyStr(<<>>)).s)
      verify0 == _to_bool(e.verify_ssl, TRUE)
      fin(u)  == IF rest THEN rstrip_slash(u) ELSE u
  IN  IF base0 # <<>> /\ token0 # <<>>
      THEN [base_url |-> fin(base0), token |-> token0, verify_ssl |-> verify0]
      ELSE IF ~sec.present
      THEN [base_url |-> fin(base0), token |-> token0, verify_ssl |-> verify0]
      ELSE [base_url   |-> fin(strip(py_or(sec.base_url, PyStr(base0)).s)),
            token      |-> strip(py_or(sec.token, PyStr(token0)).s),
            verify_ssl |-> _to_bool(sec.verify_ssl, verify0)]

(* ------------------------------------------------------------------ *)
(* Log entries and their filter                                        *)
(* ------------------------------------------------------------------ *)
K_esp32      == <<101, 115, 112, 51, 50>>
K_tts        == <<116, 116, 115>>
K_mqtt       == <<109, 113, 116, 116>>
K_websocket  == <<119, 101, 98, 115, 111, 99, 107, 101, 116>>
K_assist     == <<97, 115, 115, 105, 115, 116>>
K_automation == <<97, 117, 116, 111, 109, 97, 116, 105, 111, 110>>

\* the keywords of check_ha_logs.py and of check_ha_logs_from_config.py
KeywordsLogs       == {K_esp32, K_tts}
KeywordsLogsConfig == {K_esp32, K_mqtt, K_websocket, K_assist, K_tts}

\* the keys of a log entry, in the order the server sends them
EntryKeys == <<"level", "name", "message", "timestamp", "source">>

KeyText(k) ==
  CASE k = "level"     -> <<108, 101, 118, 101, 108>>
    [] k = "name"      -> <<110, 97, 109, 101>>
    [] k = "message"   -> <<109, 101, 115, 115, 97, 103, 101>>
    [] k = "timestamp" -> <<116, 105, 109, 101, 115, 116, 97, 109, 112>>
    [] k = "source"    -> <<115, 111, 117, 114, 99, 101>>

\* repr(v) as str(dict) writes a value, and the JSON text json.dumps writes
py_repr(v) ==
  CASE v.t = "none" -> <<78, 111, 110, 101>>
    [] v.t = "str"  -> <<39>> \o v.s \o <<39>>
    [] OTHER        -> v.s

json_value(v) ==
  CASE v.t = "none" -> <<110, 117, 108, 108>>
    [] v.t = "str"  -> <<34>> \o v.s \o <<34>>
    [] OTHER        -> lower(v.s)

\* one "key: value" item of the serialised entry; fmt is "str" for str(log),
\* "json" for json.dumps(entry, ensure_ascii=False)
item_text(e, k, fmt) ==
  IF fmt = "str"
  THEN <<39>> \o KeyText(k) \o <<39, 58, 32>> \o py_repr(e[k])
  ELSE <<34>> \o KeyText(k) \o <<34, 58, 32>> \o json_value(e[k])

RECURSIVE items_text(_, _, _)
items_text(e, i, fmt) ==
  IF i > Len(EntryKeys) THEN <<>>
  ELSE item_text(e, EntryKeys[i], fmt)
         \o (IF i < Len(EntryKeys) THEN <<44, 32>> ELSE <<>>)
         \o items_text(e, i + 1, fmt)

serialize(e, fmt) == <<123>> \o items_text(e, 1, fmt) \o <<125>>

\* the test without .lower()
log_matches_cased(e, fmt, keywords) ==
  LET s == serialize(e, fmt) IN \E k \in keywords : contains(s, k)

\* the test of the filter:  'esp32' in s or 'tts' in s ...  on the lowered text
log_matches(e, fmt, keywords) ==
  LET s == lower(serialize(e, fmt)) IN \E k \in keywords : contains(s, k)

\* the loop started at the second entry
filter_logs_from_second(logs, fmt, keywords) ==
  LET keep(e) == log_matches(e, fmt, keywords)
  IN  IF logs = <<>> THEN <<>> ELSE SelectSeq(Tail(logs), keep)

\* the filter loop: entries are appended in arrival order
RECURSIVE filter_logs(_, _, _)
filter_logs(logs, fmt, keywords) ==
  IF logs = <<>> THEN <<>>
  ELSE (IF log_matches(Head(logs), fmt, keywords) THEN <<Head(logs)>> ELSE <<>>)
         \o filter_logs(Tail(logs), fmt, keywords)

\* the second filter of check_ha_logs.py: 'automation' in s and 'esp32' in s
RECURSIVE automation_logs(_)
automation_logs(logs) ==
  IF logs = <<>> THEN <<>>
  ELSE LET s == lower(serialize(Head(logs), "str"))
       IN  (IF contains(s, K_automation) /\ contains(s, K_esp32)
            THEN <<Head(logs)>> ELSE <<>>) \o automation_logs(Tail(logs))

\* seq[-n:]
tail(seq, n) == IF Len(seq) <= n THEN seq ELSE SubSeq(seq, Len(seq) - n + 1, Len(seq))

(* ------------------------------------------------------------------ *)
(* Entity states and their filter (list_ha_states_from_config.py)      *)
(* ------------------------------------------------------------------ *)
K_voice_assistant == <<118, 111, 105, 99, 101, 95, 97, 115, 115, 105, 115, 116, 97, 110, 116>>
K_esp32p4         == <<101, 115, 112, 51, 50, 112, 52>>
K_esp32_p4        == <<101, 115, 112, 51, 50, 95, 112, 52>>

KeywordsStates == {K_voice_assistant, K_esp32p4, K_esp32_p4}

\* a < b on strings: by code point, a proper prefix first
RECURSIVE str_lt(_, _)
str_lt(a, b) ==
  IF b = <<>> THEN FALSE
  ELSE IF a = <<>> THEN TRUE
  ELSE IF Head(a) # Head(b) THEN Head(a) < Head(b)
  ELSE str_lt(Tail(a), Tail(b))

\* whether Python can order two state values: None < 'on' raises TypeError
comparable(v, w) == v.t = w.t /\ v.t = "str"

\* (eid1, val1) < (eid2, val2) on tuples: the first differing component decides
pair_lt(p, q) ==
  IF p[1] # q[1] THEN str_lt(p[1], q[1])
  ELSE IF p[2] = q[2] THEN FALSE
  ELSE str_lt(p[2].s, q[2].s)

\* list.sort() compares the second components only when the first are equal
pair_raises(p, q) == p[1] = q[1] /\ p[2] # q[2] /\ ~comparable(p[2], q[2])

\* st.get("entity_id", "")
entity_id_of(st) == IF st.entity_id.t = "none" THEN <<>> ELSE st.entity_id.s

\* the loop over the states: (entity_id, state) of each match, in arrival order
RECURSIVE state_matches(_, _)
state_matches(states, keywords) ==
  IF states = <<>> THEN <<>>
  ELSE LET eid == entity_id_of(Head(states))
       IN  (IF \E k \in keywords : contains(eid, k)
            THEN << <<eid, Head(states).state>> >> ELSE <<>>)
             \o state_matches(Tail(states), keywords)

\* insertion of one pair into a sorted list, after the pairs not greater than it
RECURSIVE insert_sorted(_, _)
insert_sorted(p, sorted) ==
  IF sorted = <<>> THEN <<p>>
  ELSE IF pair_lt(p, Head(sorted)) THEN <<p>> \o sorted
  ELSE <<Head(sorted)>> \o insert_sorted(p, Tail(sorted))

\* matches.sort(): a stable sort by pair_lt
RECURSIVE sort_pairs(_)
sort_pairs(m) ==
  IF m = <<>> THEN <<>>
  ELSE insert_sorted(m[Len(m)], sort_pairs(SubSeq(m, 1, Len(m) - 1)))

\* matches.sort() raises TypeError when two pairs cannot be ordered
sort_raises(m) ==
  \E i, j \in 1..Len(m) : i # j /\ pair_raises(m[i], m[j])

\* the loop without matches.sort()
filter_states_unsorted(states, keywords) == state_matches(states, keywords)

\* the loop and matches.sort()
filter_states(states, keywords) == sort_pairs(state_matches(states, keywords))

(* ------------------------------------------------------------------ *)
(* The runs of the diagnostic scripts                                  *)
(* ------------------------------------------------------------------ *)
VARIABLES
  script,       \* the script that runs
  pc,           \* its position
  env,          \* os.environ: HOME_ASSISTANT_BASE_URL, _TOKEN, _VERIFY_SSL
  secrets,      \* esphome/secrets.yaml
  config,       \* what the parse_define_* calls return for main/config.h
  cred,         \* the script's variables base_url/hostname, token, port, use_ssl, verify_ssl
  ws_url,       \* the url handed to create_connection
  sslopt,       \* the sslopt handed to create_connection (ssl= of a REST call)
  ws,           \* the transport: "none", "open", "closed"
  wire,         \* the messages the client has put on the transport, in order
  auth_result,  \* the server's reply to the auth message, as received
  resp,         \* the message received after the data request
  printed,      \* what the run has reported on the console
  outcome       \* "running", "exit0", "exit1", "exit2", "traceback"

sessVars == <<script, pc, env, secrets, config, cred, ws_url, sslopt, ws, wire,
              auth_result, resp, printed, outcome>>

\* the log filter on its own
VARIABLES
  entries,         \* the result list of a system_log/list response
  log_fmt,      \* "str": the filter of check_ha_logs.py, "json": of ..._from_config.py
  kept,         \* esp32_logs / interesting
  log_pc        \* "input", "filtered"

logVars == <<entries, log_fmt, kept, log_pc>>

\* the state filter on its own
VARIABLES
  snapshot,       \* the result list of a get_states response
  matches,      \* the list of (entity_id, state) pairs that is printed
  st_pc         \* "input", "sorted", "raised"

stVars == <<snapshot, matches, st_pc>>

\* _to_bool on its own
VARIABLES
  bool_in,      \* the argument v, a Python value
  bool_default, \* the argument default
  bool_out,     \* the value returned
  bool_pc       \* "input", "returned"

boolVars == <<bool_in, bool_default, bool_out, bool_pc>>

\* the parse_define_* functions on their own
VARIABLES
  parts,        \* the pieces the text of main/config.h is put together from
  parsed,       \* the value returned, PyNone for None
  cfg_pc        \* "input", then the function applied: "string", "int", "bool"

cfgVars == <<parts, parsed, cfg_pc>>

\* the runs of build.py, flash.py and simple_build.py
VARIABLES
  tool,         \* the wrapper that runs
  b_pc,         \* its position
  b_env,        \* os.environ: IDF_PATH, ESP32_COM_PORT
  exists,       \* idf_export.exists(); for simple_build.py: project_dir is there
  proc,         \* the subprocess: "none", "running", "exited", "killed"
  output,       \* the number of lines read from process.stdout
  returncode,   \* the subprocess's return code, -1 before it has one
  b_printed,    \* what the run has reported on the console
  interrupt,    \* KeyboardInterrupt was raised in the run
  status        \* how the process ended

buildVars == <<tool, b_pc, b_env, exists, proc, output, returncode, b_printed,
               interrupt, status>>

\* what the actions of one part leave alone
notSess  == <<logVars, stVars, boolVars, cfgVars, buildVars>>
notLogs  == <<sessVars, stVars, boolVars, cfgVars, buildVars>>
notSt    == <<sessVars, logVars, boolVars, cfgVars, buildVars>>
notBool  == <<sessVars, logVars, stVars, cfgVars, buildVars>>
notCfg   == <<sessVars, logVars, stVars, boolVars, buildVars>>
notBuild == <<sessVars, logVars, stVars, boolVars, cfgVars>>

ConfigScripts == {"check_ha_logs_from_config", "list_ha_states_from_config"}
SecretScripts == {"test_websocket", "test_ha_api_direct"}
WsScripts     == ConfigScripts \cup {"check_ha_logs", "test_websocket"}
Scripts       == WsScripts \cup {"test_ha_api_direct"}

(* input values *)
U_env  == <<104, 116, 116, 112, 58, 47, 47, 101>>                 \* 'http://e'
U_sec  == <<104, 116, 116, 112, 115, 58, 47, 47, 115, 47>>        \* 'https://s/'
U_bare == <<115>>                                                 \* 's': no scheme
T_env  == <<116, 101>>                                            \* 'te'
T_sec  == <<32, 116, 115, 32>>                                    \* ' ts '
V_ON   == <<79, 78>>                                              \* 'ON'
H_h    == <<104>>                                                 \* 'h'
H_n    == <<110>>                                                 \* 'n'
T_cfg  == <<116>>                                                 \* 't'

EnvValues ==
  [base_url   : {PyNone, PyStr(U_env)},
   token      : {PyNone, PyStr(T_env)},
   verify_ssl : {PyNone, PyStr(W_0), PyStr(V_ON)}]

SecretsValues ==
  {SecretsAbsent} \cup
  [present    : {TRUE},
   base_url   : {PyNone, PyStr(U_sec), PyStr(U_bare)},
   token      : {PyNone, PyStr(T_sec), PyStr(<<>>)},
   verify_ssl : {PyNone, PyBool(TRUE), PyBool(FALSE), PyStr(W_off)}]

\* present = FALSE: main/config.h does not exist; a field that is PyNone: the
\* parse_define_* call found no definition
ConfigAbsent ==
  [present |-> FALSE, HA_HOST |-> PyNone, HA_HOSTNAME |-> PyNone, HA_TOKEN |-> PyNone,
   HA_PORT |-> PyNone, HA_USE_SSL |-> PyNone]

ConfigValues ==
  {ConfigAbsent} \cup
  [present     : {TRUE},
   HA_HOST     : {PyNone, PyStr(<<>>), PyStr(H_h)},
   HA_HOSTNAME : {PyNone, PyStr(H_n)},
   HA_TOKEN    : {PyNone, PyStr(T_cfg)},
   HA_PORT     : {PyNone, PyInt(0), PyInt(8123), PyInt(65536)},
   HA_USE_SSL  : {PyNone, PyBool(TRUE), PyBool(FALSE)}]

CredNone ==
  [base_url |-> PyNone, hostname |-> PyNone, token |-> PyNone, port |-> PyNone,
   use_ssl |-> PyNone, verify_ssl |-> PyNone]

SslNone == [present |-> FALSE, cert_none |-> FALSE]

\* a message of the server. kind: "dict" (a JSON object), "list" (JSON, but no
\* object), "text" (no JSON); long: the text is longer than 100 characters;
\* id = 0: the message carries no id
NoMsg ==
  [kind |-> "none", type |-> "", long |-> FALSE, id |-> 0, success |-> "absent",
   result |-> <<>>]

Msg(kind, type, long) ==
  [kind |-> kind, type |-> type, long |-> long, id |-> 0, success |-> "absent",
   result |-> <<>>]

HelloMsgs == {Msg("dict", "auth_required", FALSE), Msg("text", "", FALSE)}

AuthReplies ==
  {Msg("dict", "auth_ok", FALSE), Msg("dict", "auth_invalid", FALSE),
   Msg("dict", "auth_invalid", TRUE), Msg("dict", "", FALSE),
   Msg("list", "", FALSE), Msg("text", "", FALSE)}

NothingPrinted ==
  [missing |-> FALSE, auth_shown |-> FALSE, auth_type |-> "", auth_whole |-> FALSE,
   auth_failed |-> FALSE, req_failed |-> FALSE, error |-> FALSE,
   total |-> -1, matched |-> -1]

SessIdle ==
  /\ script = "none" /\ pc = "done" /\ env = EnvNone /\ secrets = SecretsAbsent
  /\ config = ConfigAbsent /\ cred = CredNone /\ ws_url = <<>> /\ sslopt = SslNone
  /\ ws = "none" /\ wire = <<>> /\ auth_result = NoMsg /\ resp = NoMsg
  /\ printed = NothingPrinted /\ outcome = "running"

SessInit ==
  /\ script \in Scripts
  /\ pc = "resolve"
  /\ env \in (IF script \in SecretScripts THEN EnvValues ELSE {EnvNone})
  /\ secrets \in (IF script \in SecretScripts \cup {"check_ha_logs"}
                  THEN SecretsValues ELSE {SecretsAbsent})
  /\ config \in (IF script \in ConfigScripts THEN ConfigValues ELSE {ConfigAbsent})
  /\ cred = CredNone /\ ws_url = <<>> /\ sslopt = SslNone
  /\ ws = "none" /\ wire = <<>> /\ auth_result = NoMsg /\ resp = NoMsg
  /\ printed = NothingPrinted /\ outcome = "running"

(* results a server may send in the session runs *)
SessMaxResult == 1

SeqsUpTo(S, n) == UNION {[1..k -> S] : k \in 0..n}

V_INFO  == <<73, 78, 70, 79>>                          \* 'INFO'
V_time  == <<49, 46, 53>>                              \* '1.5'
V_ha    == <<104, 97>>                                 \* 'ha'
V_ok    == <<111, 107>>                                \* 'ok'
V_ESP32 == <<69, 83, 80, 51, 50, 32, 117, 112>>        \* 'ESP32 up'
V_a_py  == <<97, 46, 112, 121>>                        \* 'a.py'
V_tts_py == <<116, 116, 115, 46, 112, 121>>            \* 'tts.py'

LogEntry(name, message, source) ==
  [level |-> PyStr(V_INFO), name |-> name, message |-> message,
   timestamp |-> PyStr(V_time), source |-> source]

SessLogEntries ==
  {LogEntry(PyStr(V_ha), PyStr(V_ok), PyStr(V_a_py)),
   LogEntry(PyStr(V_ha), PyStr(V_ESP32), PyStr(V_a_py)),
   LogEntry(PyStr(V_ha), PyNone, PyStr(V_tts_py))}

I_a == <<115, 46, 101, 115, 112, 51, 50, 112, 52, 95, 97>>   \* 's.esp32p4_a'
I_b == <<115, 46, 101, 115, 112, 51, 50, 112, 52, 95, 98>>   \* 's.esp32p4_b'
I_k == <<108, 105, 103, 104, 116, 46, 107>>                  \* 'light.k'
V_on == <<111, 110>>                                         \* 'on'

\* an entity state; entity_id PyNone: the object has no entity_id key
EntityState(eid, val) == [entity_id |-> eid, state |-> val]

SessStates ==
  {EntityState(PyStr(I_a), PyStr(V_on)), EntityState(PyStr(I_b), PyNone),
   EntityState(PyStr(I_k), PyStr(V_on))}

\* entity_id is a unique key of a snapshot
UniqueIds(states) ==
  \A i, j \in 1..Len(states) : i # j => states[i].entity_id # states[j].entity_id

SessResults(sc) ==
  IF sc = "list_ha_states_from_config"
  THEN {r \in SeqsUpTo(SessStates, SessMaxResult) : UniqueIds(r)}
  ELSE SeqsUpTo(SessLogEntries, SessMaxResult)

\* what may arrive after the data request
Responses(sc) ==
  {Msg("list", "", FALSE), Msg("text", "", FALSE)} \cup
  {[kind |-> "dict", type |-> "result", long |-> FALSE, id |-> i, success |-> "true",
    result |-> r] : i \in {0, 1, 2}, r \in SessResults(sc)} \cup
  {[kind |-> "dict", type |-> "result", long |-> FALSE, id |-> i, success |-> ok,
    result |-> <<>>] : i \in {0, 1, 2}, ok \in {"false", "absent"}}

\* an exception raised at the current position, pr being what is printed so far:
\* test_websocket.py catches it and goes on to its end, the finally of the
\* *_from_config scripts closes an open transport, check_ha_logs.py has no handler
Fault(pr) ==
  /\ pc' = "done"
  /\ IF script = "test_websocket"
     THEN /\ printed' = [pr EXCEPT !.error = TRUE]
          /\ outcome' = "exit0"
          /\ ws' = ws
     ELSE /\ printed' = pr
          /\ outcome' = "traceback"
          /\ ws' = IF script \in ConfigScripts /\ ws = "open" THEN "closed" ELSE ws

\* return n inside try ... finally: ws.close()
ReturnClosing(n, pr) ==
  /\ pc' = "done"
  /\ printed' = pr
  /\ outcome' = n
  /\ ws' = "closed"

\* module-level credential loading, main() up to the check of the values
Resolve ==
  /\ pc = "resolve"
  /\ UNCHANGED notSess
  /\ UNCHANGED <<script, env, secrets, config, ws_url, sslopt, ws, wire, auth_result, resp>>
  /\ \/ /\ script = "check_ha_logs"
        /\ IF ~secrets.present \/ secrets.base_url.t = "none" \/ secrets.token.t = "none"
           THEN /\ outcome' = "traceback" /\ pc' = "done"
                /\ UNCHANGED <<cred, printed>>
           ELSE /\ cred' = [CredNone EXCEPT
                              !.base_url = PyStr(rstrip_slash(secrets.base_url.s)),
                              !.token = secrets.token,
                              !.verify_ssl = IF secrets.verify_ssl.t = "none"
                                             THEN PyBool(TRUE) ELSE secrets.verify_ssl]
                /\ pc' = "prepare"
                /\ UNCHANGED <<printed, outcome>>
     \/ /\ script \in SecretScripts
        /\ LET r == load_ha_secrets(env, secrets, script = "test_ha_api_direct")
           IN  /\ cred' = [CredNone EXCEPT !.base_url = PyStr(r.base_url),
                                           !.token = PyStr(r.token),
                                           !.verify_ssl = PyBool(r.verify_ssl)]
               /\ IF r.base_url = <<>> \/ r.token = <<>>
                  THEN /\ printed' = [printed EXCEPT !.missing = TRUE]
                       /\ outcome' = "exit2" /\ pc' = "done"
                  ELSE /\ pc' = IF script = "test_ha_api_direct" THEN "rest_open"
                                ELSE "prepare"
                       /\ UNCHANGED <<printed, outcome>>
     \/ /\ script \in ConfigScripts
        /\ IF ~config.present
           THEN /\ printed' = [printed EXCEPT !.missing = TRUE]
                /\ outcome' = "exit2" /\ pc' = "done" /\ cred' = cred
           ELSE LET hostname == IF truthy(config.HA_HOST) THEN config.HA_HOST
                                ELSE config.HA_HOSTNAME
                IN  /\ cred' = [CredNone EXCEPT !.hostname = hostname,
                                                !.token = config.HA_TOKEN,
                                                !.port = config.HA_PORT,
                                                !.use_ssl = config.HA_USE_SSL]
                    /\ IF \/ ~truthy(hostname) \/ ~truthy(config.HA_TOKEN)
                          \/ config.HA_PORT.t = "none" \/ config.HA_USE_SSL.t = "none"
                       THEN /\ printed' = [printed EXCEPT !.missing = TRUE]
                            /\ outcome' = "exit2" /\ pc' = "done"
                       ELSE /\ pc' = "prepare"
                            /\ UNCHANGED <<printed, outcome>>

\* base_url.split('://', 1)[1]
after_sep(u) == SubSeq(u, find(u, L_sep) + Len(L_sep), Len(u))

\* the websocket url and the ssl options
Prepare ==
  /\ pc = "prepare"
  /\ UNCHANGED notSess
  /\ UNCHANGED <<script, env, secrets, config, cred, ws, wire, auth_result, resp, printed>>
  /\ IF script \in ConfigScripts
     THEN LET url == (IF truthy(cred.use_ssl) THEN L_wss ELSE L_ws) \o cred.hostname.s
                       \o L_colon \o str_int(cred.port.s[1]) \o L_api_ws
          IN  /\ ws_url' = url
              /\ sslopt' = IF startswith(url, L_wss)
                           THEN [present |-> TRUE, cert_none |-> TRUE] ELSE SslNone
              /\ pc' = "connect" /\ outcome' = outcome
     ELSE IF ~contains(cred.base_url.s, L_sep)
     THEN \* IndexError, before any handler
          /\ outcome' = "traceback" /\ pc' = "done"
          /\ UNCHANGED <<ws_url, sslopt>>
     ELSE LET base == cred.base_url.s
              url  == (IF startswith(base, L_https) THEN L_wss ELSE L_ws)
                        \o after_sep(base) \o L_api_ws
          IN  /\ ws_url' = url
              /\ sslopt' = IF startswith(url, L_wss)
                           THEN [present |-> TRUE, cert_none |-> ~truthy(cred.verify_ssl)]
                           ELSE SslNone
              /\ pc' = "connect" /\ outcome' = outcome

\* no TCP connection is established to a port outside 1..65535
Connectable == cred.port.t = "int" => cred.port.s[1] \in 1..65535

\* websocket.create_connection(ws_url, timeout=20, sslopt=sslopt)
Connect ==
  /\ pc = "connect"
  /\ UNCHANGED notSess
  /\ UNCHANGED <<script, env, secrets, config, cred, ws_url, sslopt, wire, auth_result, resp>>
  /\ \/ /\ Connectable
        /\ ws' = "open" /\ pc' = "recv_hello"
        /\ UNCHANGED <<printed, outcome>>
     \/ Fault(printed)

\* ws.recv() of the auth_required message
RecvHello ==
  /\ pc = "recv_hello"
  /\ UNCHANGED notSess
  /\ UNCHANGED <<script, env, secrets, config, cred, ws_url, sslopt, wire, auth_result, resp>>
  /\ \/ \E m \in HelloMsgs :
          IF script = "test_websocket" /\ m.kind = "text"
          THEN Fault(printed)
          ELSE pc' = "send_auth" /\ UNCHANGED <<ws, printed, outcome>>
     \/ Fault(printed)

\* ws.send(json.dumps({'type': 'auth', 'access_token': token}))
SendAuth ==
  /\ pc = "send_auth"
  /\ UNCHANGED notSess
  /\ UNCHANGED <<script, env, secrets, config, cred, ws_url, sslopt, auth_result, resp>>
  /\ \/ /\ wire' = Append(wire, [type |-> "auth", id |-> 0, access_token |-> cred.token])
        /\ pc' = "recv_auth"
        /\ UNCHANGED <<ws, printed, outcome>>
     \/ Fault(printed) /\ wire' = wire

\* what a script does with the server's reply m to the auth message
AuthReceived(m) ==
  IF script = "check_ha_logs"
  THEN \* the text is printed, cut to 100 characters, and never looked at
       /\ printed' = [printed EXCEPT !.auth_shown = TRUE, !.auth_type = m.type,
                                     !.auth_whole = ~m.long]
       /\ pc' = "send_request"
       /\ UNCHANGED <<ws, outcome>>
  ELSE IF script \in ConfigScripts
  THEN IF m.kind # "dict"
       THEN Fault(printed)
       ELSE IF m.type # "auth_ok"
       THEN ReturnClosing("exit1",
                          [printed EXCEPT !.auth_shown = TRUE, !.auth_type = m.type,
                                          !.auth_failed = TRUE])
       ELSE pc' = "send_request" /\ UNCHANGED <<ws, printed, outcome>>
  ELSE \* test_websocket.py
       IF m.kind = "text"
       THEN Fault(printed)
       ELSE LET pr == [printed EXCEPT !.auth_shown = TRUE, !.auth_type = m.type,
                                      !.auth_whole = TRUE]
            IN  IF m.kind # "dict"
                THEN Fault(pr)
                ELSE IF m.type = "auth_ok"
                THEN pc' = "send_request" /\ printed' = pr /\ UNCHANGED <<ws, outcome>>
                ELSE /\ pc' = "close"
                     /\ printed' = [pr EXCEPT !.auth_failed = TRUE]
                     /\ UNCHANGED <<ws, outcome>>

\* auth_result = ws.recv() and the check of its type
RecvAuth ==
  /\ pc = "recv_auth"
  /\ UNCHANGED notSess
  /\ UNCHANGED <<script, env, secrets, config, cred, ws_url, sslopt, wire, resp>>
  /\ \/ \E m \in AuthReplies : auth_result' = m /\ AuthReceived(m)
     \/ Fault(printed) /\ auth_result' = auth_result

RequestType(sc) ==
  IF sc = "list_ha_states_from_config" THEN "get_states" ELSE "system_log/list"

\* ws.send(json.dumps({'id': 1, 'type': ...}))
SendRequest ==
  /\ pc = "send_request"
  /\ UNCHANGED notSess
  /\ UNCHANGED <<script, env, secrets, config, cred, ws_url, sslopt, auth_result, resp>>
  /\ \/ /\ wire' = Append(wire, [type |-> RequestType(script), id |-> 1,
                                 access_token |-> PyNone])
        /\ pc' = "recv_response"
        /\ UNCHANGED <<ws, printed, outcome>>
     \/ Fault(printed) /\ wire' = wire

\* resp = json.loads(ws.recv()): the next message is the response
RecvResponse ==
  /\ pc = "recv_response"
  /\ UNCHANGED notSess
  /\ UNCHANGED <<script, env, secrets, config, cred, ws_url, sslopt, wire, auth_result>>
  /\ \/ \E m \in Responses(script) :
          IF m.kind = "text"
          THEN Fault(printed) /\ resp' = resp
          ELSE resp' = m /\ pc' = "process" /\ UNCHANGED <<ws, printed, outcome>>
     \/ Fault(printed) /\ resp' = resp

\* message[:200] and log.get('message')[:80] raise TypeError on None
NullMessage(logs) == \E i \in 1..Len(logs) : logs[i].message.t = "none"

\* the failure taken as an empty result: no return, the counts are printed
OnRequestFailed_NoReturn ==
  /\ pc' = "close"
  /\ printed' = [printed EXCEPT !.req_failed = TRUE, !.total = 0, !.matched = 0]
  /\ UNCHANGED <<ws, outcome>>

\* success is false (or missing): check_ha_logs.py and test_websocket.py print the
\* response and go on to ws.close(); the *_from_config scripts print and return 1
OnRequestFailed ==
  IF script \in ConfigScripts
  THEN ReturnClosing("exit1", [printed EXCEPT !.req_failed = TRUE])
  ELSE /\ pc' = "close"
       /\ printed' = [printed EXCEPT !.req_failed = TRUE]
       /\ UNCHANGED <<ws, outcome>>

\* the handling of the response, up to the close of the transport
Process ==
  /\ pc = "process"
  /\ UNCHANGED notSess
  /\ UNCHANGED <<script, env, secrets, config, cred, ws_url, sslopt, wire, auth_result, resp>>
  /\ IF resp.kind # "dict"
     THEN Fault(printed)
     ELSE IF resp.success # "true"
     THEN OnRequestFailed
     ELSE LET logs  == resp.result
              total == [printed EXCEPT !.total = Len(logs)]
              go(pr) == pc' = "close" /\ printed' = pr /\ UNCHANGED <<ws, outcome>>
          IN  CASE script = "check_ha_logs" ->
                     LET esp32_logs == filter_logs(logs, "str", KeywordsLogs)
                         pr == [total EXCEPT !.matched = Len(esp32_logs)]
                     IN  IF \/ NullMessage(tail(esp32_logs, 10))
                            \/ NullMessage(tail(automation_logs(logs), 5))
                         THEN Fault(pr)
                         ELSE go(pr)
                [] script = "check_ha_logs_from_config" ->
                     go([total EXCEPT !.matched =
                           Len(filter_logs(logs, "json", KeywordsLogsConfig))])
                [] script = "list_ha_states_from_config" ->
                     IF sort_raises(state_matches(logs, KeywordsStates))
                     THEN Fault(total)
                     ELSE go([total EXCEPT !.matched =
                                Len(filter_states(logs, KeywordsStates))])
                [] script = "test_websocket" ->
                     IF NullMessage(prefix(logs, 3)) THEN Fault(total) ELSE go(total)

\* ws.close() and the end of the script
Close ==
  /\ pc = "close"
  /\ UNCHANGED notSess
  /\ ws' = "closed" /\ pc' = "done" /\ outcome' = "exit0"
  /\ UNCHANGED <<script, env, secrets, config, cred, ws_url, sslopt, wire, auth_result,
                 resp, printed>>

(* test_ha_api_direct.py: five REST calls in one aiohttp.ClientSession *)
RestCalls ==
  <<"GET /api/config", "GET /api/states", "GET /api/states/{id}", "GET /api/error_log",
    "POST /api/services/mqtt/publish">>

\* async with aiohttp.ClientSession() as session
RestOpen ==
  /\ pc = "rest_open"
  /\ UNCHANGED notSess
  /\ ws' = "open" /\ pc' = "rest_request"
  /\ UNCHANGED <<script, env, secrets, config, cred, ws_url, sslopt, wire, auth_result,
                 resp, printed, outcome>>

\* one call, with ssl=VERIFY_SSL; an exception is caught and printed
RestRequest ==
  /\ pc = "rest_request"
  /\ UNCHANGED notSess
  /\ Len(wire) < Len(RestCalls)
  /\ wire' = Append(wire, [type |-> RestCalls[Len(wire) + 1], id |-> 0,
                           access_token |-> cred.token])
  /\ sslopt' = [present |-> TRUE, cert_none |-> ~truthy(cred.verify_ssl)]
  /\ \E ok \in BOOLEAN : printed' = [printed EXCEPT !.error = @ \/ ~ok]
  /\ pc' = IF Len(wire') = Len(RestCalls) THEN "rest_close" ELSE "rest_request"
  /\ UNCHANGED <<script, env, secrets, config, cred, ws_url, ws, auth_result, resp, outcome>>

\* the end of the async with block
RestClose ==
  /\ pc = "rest_close"
  /\ UNCHANGED notSess
  /\ ws' = "closed" /\ pc' = "done" /\ outcome' = "exit0"
  /\ UNCHANGED <<script, env, secrets, config, cred, ws_url, sslopt, wire, auth_result,
                 resp, printed>>

SessNext ==
  \/ Resolve \/ Prepare \/ Connect \/ RecvHello \/ SendAuth \/ RecvAuth
  \/ SendRequest \/ RecvResponse \/ Process \/ Close
  \/ RestOpen \/ RestRequest \/ RestClose

(* ------------------------------------------------------------------ *)
(* The log filter on its own                                           *)
(* ------------------------------------------------------------------ *)
MaxLogs == 3

V_Mqtt == <<77, 113, 116, 116>>                        \* 'Mqtt'

LogEntries ==
  {LogEntry(n, m, src) : n \in {PyStr(V_ha), PyStr(V_Mqtt)},
                         m \in {PyStr(V_ok), PyStr(V_ESP32), PyNone},
                         src \in {PyStr(V_a_py), PyStr(V_tts_py)}}

KeywordsOf(fmt) == IF fmt = "str" THEN KeywordsLogs ELSE KeywordsLogsConfig

LogIdle == entries = <<>> /\ log_fmt = "str" /\ kept = <<>> /\ log_pc = "idle"

LogInit ==
  /\ entries \in SeqsUpTo(LogEntries, MaxLogs)
  /\ log_fmt \in {"str", "json"}
  /\ kept = <<>>
  /\ log_pc = "input"

\* esp32_logs = [log for log in logs if ...] / the loop that fills interesting
FilterLogs ==
  /\ log_pc = "input"
  /\ UNCHANGED notLogs
  /\ kept' = filter_logs(entries, log_fmt, KeywordsOf(log_fmt))
  /\ log_pc' = "filtered"
  /\ UNCHANGED <<entries, log_fmt>>

\* the same filter applied to the list it produced
FilterAgain ==
  /\ log_pc = "filtered"
  /\ UNCHANGED notLogs
  /\ kept' = filter_logs(kept, log_fmt, KeywordsOf(log_fmt))
  /\ log_pc' = "refiltered"
  /\ UNCHANGED <<entries, log_fmt>>

LogNext == FilterLogs \/ FilterAgain

(* ------------------------------------------------------------------ *)
(* The state filter on its own                                         *)
(* ------------------------------------------------------------------ *)
MaxStates == 3

I_A == <<83, 46, 69, 83, 80, 51, 50, 80, 52>>          \* 'S.ESP32P4'

StateValues ==
  {EntityState(i, v) : i \in {PyStr(I_a), PyStr(I_b), PyStr(I_k), PyStr(I_A), PyNone},
                       v \in {PyStr(V_on), PyStr(K_esp32p4), PyNone}}

StIdle == snapshot = <<>> /\ matches = <<>> /\ st_pc = "idle"

StInit ==
  /\ snapshot \in {r \in SeqsUpTo(StateValues, MaxStates) : UniqueIds(r)}
  /\ matches = <<>>
  /\ st_pc = "input"

\* the loop over the states and matches.sort(), which may raise TypeError
FilterStates ==
  /\ st_pc = "input"
  /\ UNCHANGED notSt
  /\ IF sort_raises(state_matches(snapshot, KeywordsStates))
     THEN matches' = matches /\ st_pc' = "raised"
     ELSE matches' = filter_states(snapshot, KeywordsStates) /\ st_pc' = "sorted"
  /\ UNCHANGED snapshot

StNext == FilterStates

(* ------------------------------------------------------------------ *)
(* Boolean coercion on its own                                         *)
(* ------------------------------------------------------------------ *)
MaxBoolLen == 3

\* every text of up to MaxBoolLen of the characters y Y n N o O 0 1, space and
\* newline, and the longer words in lower, upper and mixed case, bare and padded
BoolTexts ==
  LET words == {W_true, W_yes, W_false, W_off, <<84, 82, 85, 69>>, <<89, 101, 115>>,
                <<70, 65, 76, 83, 69>>, <<79, 102, 70>>, <<116, 114, 117>>,
                <<121, 101, 115, 33>>, <<111, 102>>}
      pads  == {<<>>, <<32>>, <<9>>, <<10>>}
  IN  SeqsUpTo({121, 89, 110, 78, 111, 79, 48, 49, 32, 10}, MaxBoolLen)
        \cup {a \o w \o b : a \in pads, w \in words, b \in pads}

BoolIdle ==
  bool_in = PyNone /\ bool_default = TRUE /\ bool_out = TRUE /\ bool_pc = "idle"

BoolInit ==
  /\ bool_in \in {PyStr(t) : t \in BoolTexts} \cup {PyNone, PyBool(TRUE), PyBool(FALSE)}
  /\ bool_default \in BOOLEAN
  /\ bool_out = TRUE
  /\ bool_pc = "input"

\* _to_bool(v, default)
ToBool ==
  /\ bool_pc = "input"
  /\ UNCHANGED notBool
  /\ bool_out' = _to_bool(bool_in, bool_default)
  /\ bool_pc' = "returned"
  /\ UNCHANGED <<bool_in, bool_default>>

(* ------------------------------------------------------------------ *)
(* The extractors of main/config.h: parse_define_string, _int, _bool  *)
(* ------------------------------------------------------------------ *)
L_define == <<100, 101, 102, 105, 110, 101>>           \* 'define'
L_slashes == <<47, 47>>                                \* '//'

\* \s*: the first position from i on that holds no whitespace (\s matches \n too)
RECURSIVE skip_ws(_, _)
skip_ws(s, i) == IF i <= Len(s) /\ IsSpace(s[i]) THEN skip_ws(s, i + 1) ELSE i

\* the literal lit at position i; nocase: under re.IGNORECASE
lit_at(s, i, lit, nocase) ==
  /\ i + Len(lit) - 1 <= Len(s)
  /\ LET t == SubSeq(s, i, i + Len(lit) - 1)
     IN  IF nocase THEN lower(t) = lower(lit) ELSE t = lit

\* the first position from i on that holds none of the characters of set
RECURSIVE skip_in(_, _, _)
skip_in(s, i, set) == IF i <= Len(s) /\ s[i] \in set THEN skip_in(s, i + 1, set) ELSE i

\* \s*(?://.*)?$  from position i: whitespace, then a comment up to the end of the
\* line, or the end of a line ($ under re.MULTILINE: before a \n or at the end)
tail_ok(s, i) ==
  \E j \in i..(Len(s) + 1) :
    /\ \A k \in i..(j - 1) : IsSpace(s[k])
    /\ \/ j = Len(s) + 1
       \/ s[j] = 10
       \/ lit_at(s, j, L_slashes, FALSE)

\* ^\s*#\s*define\s+NAME\s+  from the line start p: the position where the value
\* starts, 0 when the text does not match
define_at(s, p, name, nocase) ==
  LET a == skip_ws(s, p)
      b == skip_ws(s, a + 1)
      c == b + Len(L_define)
      d == skip_ws(s, c)
      e == d + Len(name)
      f == skip_ws(s, e)
  IN  IF /\ lit_at(s, a, <<35>>, FALSE)
         /\ lit_at(s, b, L_define, nocase)
         /\ d > c
         /\ lit_at(s, d, name, nocase)
         /\ f > e
      THEN f ELSE 0

\* group(1) of the match of a pattern at the line start p, PyNone without a match.
\* kind "string": "([^"]*)", "int": ([0-9]+), "bool": ([01]|true|false), ignoring case
group_at(kind, s, p, name) ==
  LET f == define_at(s, p, name, kind = "bool")
      found(g) == IF tail_ok(s, g) THEN PyStr(SubSeq(s, f, g - 1)) ELSE PyNone
  IN  IF f = 0 THEN PyNone
      ELSE CASE kind = "string" ->
                  LET g == skip_in(s, f + 1, (0..255) \ {34})
                  IN  IF lit_at(s, f, <<34>>, FALSE) /\ lit_at(s, g, <<34>>, FALSE)
                           /\ tail_ok(s, g + 1)
                      THEN PyStr(SubSeq(s, f + 1, g - 1)) ELSE PyNone
             [] kind = "int" ->
                  LET g == skip_in(s, f, 48..57)
                  IN  IF g > f THEN found(g) ELSE PyNone
             [] kind = "bool" ->
                  IF lit_at(s, f, W_0, FALSE) \/ lit_at(s, f, W_1, FALSE)
                  THEN found(f + 1)
                  ELSE IF lit_at(s, f, W_true, TRUE) THEN found(f + Len(W_true))
                  ELSE IF lit_at(s, f, W_false, TRUE) THEN found(f + Len(W_false))
                  ELSE PyNone

\* re.search(pattern, src, re.MULTILINE): the match at the first line start that
\* has one; ^ matches at the start of the text and after every \n
re_search(kind, s, name) ==
  LET hits == {p \in 1..(Len(s) + 1) :
                 /\ p = 1 \/ s[p - 1] = 10
                 /\ group_at(kind, s, p, name) # PyNone}
  IN  IF hits = {} THEN PyNone
      ELSE group_at(kind, s, CHOOSE p \in hits : \A q \in hits : p <= q, name)

\* int(digits)
RECURSIVE int_of(_)
int_of(ds) ==
  IF ds = <<>> THEN 0 ELSE 10 * int_of(SubSeq(ds, 1, Len(ds) - 1)) + (ds[Len(ds)] - 48)

\* the extractor that returns m.group(1) as it is
parse_define_string_raw(src, name) == re_search("string", src, name)

parse_define_string(src, name) ==
  LET m == re_search("string", src, name)
  IN  IF m = PyNone THEN PyNone ELSE PyStr(strip(m.s))

parse_define_int(src, name) ==
  LET m == re_search("int", src, name)
  IN  IF m = PyNone THEN PyNone ELSE PyInt(int_of(m.s))

parse_define_bool(src, name) ==
  LET m == re_search("bool", src, name)
      v == lower(strip(m.s))
  IN  IF m = PyNone THEN PyNone
      ELSE IF v \in {W_1, W_true} THEN PyBool(TRUE)
      ELSE IF v \in {W_0, W_false} THEN PyBool(FALSE)
      ELSE PyNone

(* the texts the extractors are applied to *)
MaxSep == 1

N_X == <<88>>                                          \* the symbol asked for: 'X'

\* the text is  before #define sep1 sym sep2 value trail.  sep1 and sep2 are up
\* to MaxSep spaces and newlines
ConfigParts ==
  [before : {<<>>, <<32, 32>>, <<120, 32>>, <<121, 10>>},     \* '', '  ', 'x ', 'y\n'
   sep1   : SeqsUpTo({32, 10}, MaxSep),
   sym    : {N_X, <<88, 89>>, <<120>>},                       \* 'X', 'XY', 'x'
   sep2   : SeqsUpTo({32, 10}, MaxSep),
   value  : {<<34, 118, 34>>, <<34, 32, 118, 32, 34>>,        \* '"v"', '" v "'
             <<34, 97, 10, 98, 34>>, <<34, 118>>,             \* '"a\nb"', '"v'
             <<53>>, <<48, 53>>, <<53, 120>>,                 \* '5', '05', '5x'
             W_true, <<84, 82, 85, 69>>, W_1, <<>>},          \* 'true', 'TRUE', '1', ''
   trail  : {<<>>, <<32, 47, 47, 32, 99>>, <<10, 122>>,       \* '', ' // c', '\nz'
             <<32, 122>>, <<59>>}]                            \* ' z', ';'

\* read_config_h(path): the text of the file
read_config_h(pt) ==
  pt.before \o <<35>> \o L_define \o pt.sep1 \o pt.sym \o pt.sep2 \o pt.value \o pt.trail

CfgIdle ==
  /\ parts = [before |-> <<>>, sep1 |-> <<>>, sym |-> <<>>, sep2 |-> <<>>,
              value |-> <<>>, trail |-> <<>>]
  /\ parsed = PyNone /\ cfg_pc = "idle"

CfgInit == parts \in ConfigParts /\ parsed = PyNone /\ cfg_pc = "input"

ParseString ==
  /\ cfg_pc = "input"
  /\ UNCHANGED notCfg
  /\ parsed' = parse_define_string(read_config_h(parts), N_X)
  /\ cfg_pc' = "string"
  /\ UNCHANGED parts

ParseInt ==
  /\ cfg_pc = "input"
  /\ UNCHANGED notCfg
  /\ parsed' = parse_define_int(read_config_h(parts), N_X)
  /\ cfg_pc' = "int"
  /\ UNCHANGED parts

ParseBool ==
  /\ cfg_pc = "input"
  /\ UNCHANGED notCfg
  /\ parsed' = parse_define_bool(read_config_h(parts), N_X)
  /\ cfg_pc' = "bool"
  /\ UNCHANGED parts

(* ------------------------------------------------------------------ *)
(* The build and flash wrappers                                        *)
(* ------------------------------------------------------------------ *)
MaxLines == 3
MaxReturnCode == 2

\* build.py and flash.py call subprocess.run, simple_build.py reads the output of
\* a subprocess.Popen line by line
RunTools == {"build", "flash"}
Tools    == RunTools \cup {"simple_build"}

Running       == [kind |-> "running", code |-> -1]
Exit(n)       == [kind |-> "exit", code |-> n]
\* an exception nothing catches: the interpreter prints the stack trace
Traceback     == [kind |-> "traceback", code |-> 1]

BuildNothingPrinted ==
  [not_found |-> FALSE, success |-> FALSE, failed |-> FALSE, interrupted |-> FALSE,
   error |-> FALSE]

BuildIdle ==
  /\ tool = "none" /\ b_pc = "idle"
  /\ b_env = [IDF_PATH |-> PyNone, ESP32_COM_PORT |-> PyNone]
  /\ exists = FALSE /\ proc = "none" /\ output = 0 /\ returncode = -1
  /\ b_printed = BuildNothingPrinted /\ interrupt = FALSE /\ status = Running

BuildInit ==
  /\ tool \in Tools
  /\ b_pc = "start"
  /\ b_env \in [IDF_PATH : {PyNone, PyStr(<<100>>)},
                ESP32_COM_PORT : IF tool = "flash" THEN {PyNone, PyStr(<<67, 79, 77, 51>>)}
                                 ELSE {PyNone}]
  /\ exists \in BOOLEAN
  /\ proc = "none" /\ output = 0 /\ returncode = -1
  /\ b_printed = BuildNothingPrinted /\ interrupt = FALSE /\ status = Running

\* return n from main(), sys.exit(main())
Return(n, pr) ==
  /\ b_pc' = "done" /\ status' = Exit(n) /\ b_printed' = pr

\* main() up to the start of the subprocess
Start ==
  /\ b_pc = "start"
  /\ UNCHANGED notBuild
  /\ UNCHANGED <<tool, b_env, exists, output, returncode, interrupt>>
  /\ IF tool \in RunTools /\ ~exists
     THEN Return(1, [b_printed EXCEPT !.not_found = TRUE]) /\ proc' = proc
     ELSE IF tool = "simple_build" /\ ~exists
     THEN \* os.chdir(project_dir) raises outside the try block
          /\ b_pc' = "done" /\ status' = Traceback
          /\ UNCHANGED <<proc, b_printed>>
     ELSE \/ /\ proc' = "running"
             /\ b_pc' = IF tool \in RunTools THEN "run" ELSE "read"
             /\ UNCHANGED <<b_printed, status>>
          \/ \* the subprocess cannot be started: except Exception
             Return(1, [b_printed EXCEPT !.error = TRUE]) /\ proc' = proc

\* for line in process.stdout: print(line, end='')
ReadLine ==
  /\ b_pc = "read"
  /\ UNCHANGED notBuild
  /\ UNCHANGED <<tool, b_env, exists, proc, returncode, b_printed, interrupt, status>>
  /\ \/ output < MaxLines /\ output' = output + 1 /\ b_pc' = b_pc
     \/ output' = output /\ b_pc' = "wait"

\* subprocess.run(...) returns / process.wait() returns
ProcessExits ==
  /\ b_pc \in {"run", "wait"}
  /\ UNCHANGED notBuild
  /\ \E rc \in 0..MaxReturnCode : returncode' = rc
  /\ proc' = "exited"
  /\ b_pc' = "report"
  /\ UNCHANGED <<tool, b_env, exists, output, b_printed, interrupt, status>>

\* the report of the result and  return result.returncode
Report ==
  /\ b_pc = "report"
  /\ UNCHANGED notBuild
  /\ IF tool = "flash"
     THEN Return(returncode, b_printed)
     ELSE Return(returncode, [b_printed EXCEPT !.success = (returncode = 0),
                                               !.failed = (returncode # 0)])
  /\ UNCHANGED <<tool, b_env, exists, proc, output, returncode, interrupt>>

\* Ctrl-C while the script is blocked on the subprocess: flash.py has
\* except KeyboardInterrupt, build.py and simple_build.py have except Exception
\* only, which does not catch it; subprocess.run kills the child before it
\* raises again, the Popen child of simple_build.py is left running
OnInterrupt ==
  IF tool = "flash"
  THEN Return(0, [b_printed EXCEPT !.interrupted = TRUE])
  ELSE /\ b_pc' = "done" /\ status' = Traceback /\ b_printed' = b_printed

KeyboardInterrupt ==
  /\ b_pc \in {"run", "read", "wait"}
  /\ UNCHANGED notBuild
  /\ interrupt' = TRUE
  /\ proc' = IF tool \in RunTools THEN "killed" ELSE proc
  /\ OnInterrupt
  /\ UNCHANGED <<tool, b_env, exists, output, returncode>>

\* an exception inside the try block: except Exception prints it, return 1
RunFails ==
  /\ b_pc \in {"run", "read", "wait"}
  /\ UNCHANGED notBuild
  /\ Return(1, [b_printed EXCEPT !.error = TRUE])
  /\ UNCHANGED <<tool, b_env, exists, proc, output, returncode, interrupt>>

BuildNext ==
  Start \/ ReadLine \/ ProcessExits \/ Report \/ KeyboardInterrupt \/ RunFails

(* ------------------------------------------------------------------ *)
(* Specifications                                                      *)
(* ------------------------------------------------------------------ *)
vars == <<sessVars, logVars, stVars, boolVars, cfgVars, buildVars>>

Init == SessInit /\ LogIdle /\ StIdle /\ BoolIdle /\ CfgIdle /\ BuildIdle

Next == SessNext

\* the runs of the scripts
Spec == Init /\ [][Next]_vars

InitLogs == SessIdle /\ LogInit /\ StIdle /\ BoolIdle /\ CfgIdle /\ BuildIdle

NextLogs == LogNext

\* the log filter applied to every list of entries up to MaxLogs
SpecLogs == InitLogs /\ [][NextLogs]_vars

InitStates == SessIdle /\ LogIdle /\ StInit /\ BoolIdle /\ CfgIdle /\ BuildIdle

NextStates == StNext

\* the state filter applied to every snapshot up to MaxStates
SpecStates == InitStates /\ [][NextStates]_vars

InitBool == SessIdle /\ LogIdle /\ StIdle /\ BoolInit /\ CfgIdle /\ BuildIdle

NextBool == ToBool

\* _to_bool applied to every text of BoolTexts with either default
SpecBool == InitBool /\ [][NextBool]_vars

InitCfg == SessIdle /\ LogIdle /\ StIdle /\ BoolIdle /\ CfgInit /\ BuildIdle

NextCfg == ParseString \/ ParseInt \/ ParseBool

\* the three extractors applied to every text of ConfigParts
SpecCfg == InitCfg /\ [][NextCfg]_vars

InitBuild == SessIdle /\ LogIdle /\ StIdle /\ BoolIdle /\ CfgIdle /\ BuildInit

NextBuild == BuildNext

\* the runs of the build and flash wrappers
SpecBuild == InitBuild /\ [][NextBuild]_vars

(* ------------------------------------------------------------------ *)
(* Properties of the session runs                                      *)
(* ------------------------------------------------------------------ *)
DataRequests == {"system_log/list", "get_states"}

\* the server's reply to the auth message had type auth_ok
Authenticated == auth_result.kind = "dict" /\ auth_result.type = "auth_ok"

\* C1: no data request (system_log/list, get_states) is on the transport unless
\* the server's reply to the auth message had type auth_ok
C1_RequestOnlyWhenAuthenticated ==
  \A i \in 1..Len(wire) : wire[i].type \in DataRequests => Authenticated

\* C2: when the reply to the auth message is not auth_ok, no request follows and
\* the run ends with the authentication failure reported together with the raw
\* payload, the session closed
C2_AuthFailureClosesSession ==
  (auth_result.kind # "none" /\ ~Authenticated) =>
    /\ pc \notin {"send_request", "recv_response", "process"}
    /\ pc = "done" =>
         /\ ws = "closed"
         /\ printed.auth_failed
         /\ printed.auth_whole

\* C3: no run ends with an opened transport that is not closed
C3_TransportClosedAtEnd ==
  pc = "done" => ws \in {"none", "closed"}

\* the host part of the resolved parameters
HostOf ==
  IF script \in ConfigScripts THEN cred.hostname.s
  ELSE IF contains(cred.base_url.s, L_sep) THEN after_sep(cred.base_url.s)
  ELSE cred.base_url.s

\* C4: while a transport is open the resolved host and token are non-empty and
\* the port is in 1..65535
C4_ParametersValidWhenOpen ==
  ws = "open" =>
    /\ HostOf # <<>>
    /\ truthy(cred.token)
    /\ cred.port.t = "int" => cred.port.s[1] \in 1..65535

\* the text of an environment variable as the resolver reads it
EnvText(v) ==
  LET t == strip(py_or(v, PyStr(<<>>)).s)
  IN  IF script = "test_ha_api_direct" THEN rstrip_slash(t) ELSE t

SecretText(v) == strip(py_or(v, PyStr(<<>>)).s)

\* C5: for each field, an environment variable that is set wins over a different
\* value of the secrets file
C5_EnvironmentWins ==
  (script \in SecretScripts /\ pc # "resolve" /\ ~printed.missing) =>
    /\ (EnvText(env.base_url) # <<>> /\ SecretText(secrets.base_url) # <<>>
          /\ EnvText(env.base_url) # rstrip_slash(SecretText(secrets.base_url)))
         => cred.base_url.s = EnvText(env.base_url)
    /\ (EnvText(env.token) # <<>> /\ SecretText(secrets.token) # <<>>
          /\ EnvText(env.token) # SecretText(secrets.token))
         => cred.token.s = EnvText(env.token)
    /\ (env.verify_ssl.t # "none" /\ secrets.verify_ssl.t # "none"
          /\ _to_bool(env.verify_ssl, TRUE) # _to_bool(secrets.verify_ssl, TRUE))
         => cred.verify_ssl = PyBool(_to_bool(env.verify_ssl, TRUE))

\* C6: a connection is open without certificate checks only if the resolved policy
\* of the run disabled verification
C6_VerificationSkippedOnlyByPolicy ==
  (ws = "open" /\ sslopt.cert_none) =>
    (cred.verify_ssl.t # "none" /\ ~truthy(cred.verify_ssl))

\* C7: the message taken as the response of the request carries the request's id
C7_ResponseIdMatchesRequest ==
  (pc = "process" /\ resp.kind = "dict") => resp.id = wire[Len(wire)].id

\* C8 as stated: after a success:false response the run finishes normally and
\* reports zero matching results
C8_FailedResponseReportsZero ==
  (pc = "done" /\ resp.kind = "dict" /\ resp.success = "false") =>
    /\ printed.req_failed
    /\ outcome = "exit0"
    /\ printed.matched = 0

\* C8 amended: a success:false response is reported without raising, no total and
\* no match count is reported, the transport is closed, and the run ends with
\* status 1 in the *_from_config scripts and status 0 in the others
C8_FailedResponseReported ==
  (pc = "done" /\ resp.kind = "dict" /\ resp.success = "false") =>
    /\ printed.req_failed
    /\ ~printed.error
    /\ printed.total = -1 /\ printed.matched = -1
    /\ ws = "closed"
    /\ outcome = IF script \in ConfigScripts THEN "exit1" ELSE "exit0"

C8_Witness ==
  /\ pc = "done" /\ resp.kind = "dict" /\ resp.success = "false"
  /\ script = "list_ha_states_from_config" /\ outcome = "exit1" /\ printed.req_failed

(* ------------------------------------------------------------------ *)
(* Properties of the filters                                           *)
(* ------------------------------------------------------------------ *)
\* the text of a field's value in the serialised entry
ValueText(v) == lower(IF log_fmt = "str" THEN py_repr(v) ELSE json_value(v))

\* some keyword occurs in the value of level, name or message
InReportedFields(e) ==
  \E k \in KeywordsOf(log_fmt) : \E f \in {"level", "name", "message"} :
    e[f].t = "str" /\ contains(lower(e[f].s), k)

\* some keyword occurs in the key or in the value of one of the entry's fields
InAnyField(e) ==
  \E k \in KeywordsOf(log_fmt) : \E i \in 1..Len(EntryKeys) :
    \/ contains(lower(KeyText(EntryKeys[i])), k)
    \/ contains(ValueText(e[EntryKeys[i]]), k)

\* C9 as stated: the filter keeps exactly the entries with a keyword in the value
\* of level, name or message, in arrival order, duplicates included
C9_KeepsReportedFieldMatches ==
  log_pc = "filtered" => kept = SelectSeq(entries, InReportedFields)

\* C9 amended: the filter keeps exactly the entries with a keyword, compared
\* case-insensitively, in the key or the value of any field (timestamp and source
\* included), in arrival order, duplicates included
C9_KeepsAnyFieldMatches ==
  log_pc = "filtered" => kept = SelectSeq(entries, InAnyField)

C9_Witness ==
  /\ log_pc = "filtered"
  /\ Len(kept) = 2 /\ Len(entries) = 3
  /\ kept[1] = kept[2]
  /\ ~InReportedFields(kept[1])
  /\ kept[1].source = PyStr(V_tts_py)

\* a < b on strings, by the first position where they differ
LexLess(a, b) ==
  \E n \in 0..Len(a) :
    /\ n <= Len(b)
    /\ SubSeq(a, 1, n) = SubSeq(b, 1, n)
    /\ \/ n = Len(a) /\ n < Len(b)
       \/ n < Len(a) /\ n < Len(b) /\ a[n + 1] < b[n + 1]

\* the states of the snapshot whose entity id holds a keyword
Matching == {i \in 1..Len(snapshot) :
               \E k \in KeywordsStates : contains(entity_id_of(snapshot[i]), k)}

ExampleStates ==
  << EntityState(PyStr(<<115, 101, 110, 115, 111, 114, 46, 98, 95, 101, 115, 112, 51, 50>>),
                 PyStr(V_on)),
     EntityState(PyStr(<<115, 101, 110, 115, 111, 114, 46, 97, 95, 101, 115, 112, 51, 50>>),
                 PyNone),
     EntityState(PyStr(<<108, 105, 103, 104, 116, 46, 107, 105, 116, 99, 104, 101, 110>>),
                 PyStr(V_on)) >>

C14_FilterIdempotent ==
  [][(log_pc = "filtered" /\ log_pc' = "refiltered") => kept' = kept]_vars

C14_Witness ==
  /\ log_pc = "refiltered"
  /\ Len(entries) = 3 /\ Len(kept) = 2
  /\ kept[1] # kept[2]
  /\ kept = <<entries[1], entries[3]>>

(* ------------------------------------------------------------------ *)
(* Properties of the boolean coercion                                  *)
(* ------------------------------------------------------------------ *)
\* t is one of the words of W, in any letter case
InAnyCase(t, W) ==
  \E w \in W :
    /\ Len(t) = Len(w)
    /\ \A i \in 1..Len(w) : t[i] = w[i] \/ (w[i] \in 97..122 /\ t[i] = w[i] - 32)

\* t with whitespace before and after it is one of the words of W, in any case
PaddedInAnyCase(t, W) ==
  \E a, b \in 0..Len(t) :
    /\ a + b <= Len(t)
    /\ \A i \in 1..a : IsSpace(t[i])
    /\ \A i \in (Len(t) - b + 1)..Len(t) : IsSpace(t[i])
    /\ InAnyCase(SubSeq(t, a + 1, Len(t) - b), W)

\* C11 as stated: a string that is one of 1, true, yes, y, on in any letter case
\* gives true, one of 0, false, no, n, off gives false, every other string gives
\* the caller's default
C11_WordsElseDefault ==
  (bool_pc = "returned" /\ bool_in.t = "str") =>
    bool_out = IF InAnyCase(bool_in.s, TruthyWords) THEN TRUE
               ELSE IF InAnyCase(bool_in.s, FalsyWords) THEN FALSE
               ELSE bool_default

\* C11 amended: the string is compared after the whitespace around it is removed:
\* a word of 1, true, yes, y, on in any letter case, alone or with whitespace
\* before or after it, gives true, a word of 0, false, no, n, off likewise gives
\* false, every other string gives the caller's default
C11_TrimmedWordsElseDefault ==
  (bool_pc = "returned" /\ bool_in.t = "str") =>
    bool_out = IF PaddedInAnyCase(bool_in.s, TruthyWords) THEN TRUE
               ELSE IF PaddedInAnyCase(bool_in.s, FalsyWords) THEN FALSE
               ELSE bool_default

C11_Witness ==
  /\ bool_pc = "returned"
  /\ bool_in = PyStr(<<32, 79, 102, 70, 10>>)
  /\ bool_default = TRUE
  /\ bool_out = FALSE

(* ------------------------------------------------------------------ *)
(* Properties of the extractors                                        *)
(* ------------------------------------------------------------------ *)
\* the lines of a text
RECURSIVE Lines(_)
Lines(s) ==
  LET n == skip_in(s, 1, (0..255) \ {10})
  IN  IF n > Len(s) THEN {s}
      ELSE {SubSeq(s, 1, n - 1)} \cup Lines(SubSeq(s, n + 1, Len(s)))

\* the function applied in this state, applied to the text s
Extract(s) ==
  CASE cfg_pc = "string" -> parse_define_string(s, N_X)
    [] cfg_pc = "int"    -> parse_define_int(s, N_X)
    [] cfg_pc = "bool"   -> parse_define_bool(s, N_X)

\* C12: an extractor returns a value only if one line of the text, taken alone, is
\* a definition  #define X <value>  of exactly the symbol asked for
C12_OnlyWholeLineDefinitions ==
  (cfg_pc \in {"string", "int", "bool"} /\ parsed # PyNone) =>
    \E line \in Lines(read_config_h(parts)) :
      /\ Extract(line) # PyNone
      /\ contains(line, L_define)
      /\ contains(line, N_X)

\* the text between the quotes of a quoted value
Quoted(v) == SubSeq(v, 2, Len(v) - 1)

\* the text holds one line  #define X "value"  with nothing or a comment after it
ValidStringLine ==
  /\ parts.before \in {<<>>, <<32, 32>>, <<121, 10>>}
  /\ parts.sep1 # <<>> /\ 10 \notin {parts.sep1[i] : i \in 1..Len(parts.sep1)}
  /\ parts.sym = N_X
  /\ parts.sep2 # <<>> /\ 10 \notin {parts.sep2[i] : i \in 1..Len(parts.sep2)}
  /\ Len(parts.value) >= 2 /\ parts.value[1] = 34 /\ parts.value[Len(parts.value)] = 34
  /\ \A i \in 1..Len(Quoted(parts.value)) : Quoted(parts.value)[i] \notin {34, 10}
  /\ parts.trail \in {<<>>, <<32, 47, 47, 32, 99>>}

\* C13: for a valid line  #define X "value" // comment  parse_define_string returns
\* the quoted text without the comment and without the whitespace around it
C13_ValidLineGivesValue ==
  (cfg_pc = "string" /\ ValidStringLine) =>
    /\ parsed.t = "str"
    /\ parsed.s # <<>> => ~IsSpace(parsed.s[1]) /\ ~IsSpace(parsed.s[Len(parsed.s)])
    /\ \E a, b \in 0..Len(Quoted(parts.value)) :
         /\ a + b + Len(parsed.s) = Len(Quoted(parts.value))
         /\ Quoted(parts.value)
              = [i \in 1..a |-> 32] \o parsed.s \o [i \in 1..b |-> 32]

C13_Witness ==
  /\ cfg_pc = "string" /\ ValidStringLine
  /\ parts.value = <<34, 32, 118, 32, 34>>
  /\ parts.trail = <<32, 47, 47, 32, 99>>
  /\ parts.before = <<121, 10>>
  /\ parsed = PyStr(<<118>>)

(* ------------------------------------------------------------------ *)
(* Properties of the build and flash wrappers                          *)
(* ------------------------------------------------------------------ *)
\* C15: a run interrupted while it waits for the subprocess ends with the
\* interruption reported and a status of 0 or 1, not with a stack trace
C15_InterruptCaught ==
  (b_pc = "done" /\ interrupt) =>
    /\ status.kind = "exit" /\ status.code \in {0, 1}
    /\ b_printed.interrupted

====
